---- MODULE Spec2Model ----
(***************************************************************************)
(* Model of the OpenFlow message field accessors of                        *)
(* Modules/loci/inc/loci/of_message.h.                                     *)
(*                                                                         *)
(* The state is one caller-owned message buffer (a function from byte      *)
(* index to byte value) and a record of the most recent accessor call.     *)
(* Every accessor of the header is one action.  Two kinds of run are       *)
(* explored: a "probe" run applies at most MaxSets writes, drawn from the  *)
(* boundary values of each width, to a buffer with arbitrary contents;  a  *)
(* "sequence" run applies any number of calls drawn from a small set of    *)
(* values to the same buffer.                                              *)
(***************************************************************************)
EXTENDS Integers, FiniteSets, Sequences, TLC

VARIABLES
    buf,      \* the message buffer: [0..BufLen-1 -> 0..255]
    last,     \* the most recent accessor call, its arguments and result
    written,  \* history: the set calls whose bytes no later set has touched
    run,      \* "probe" or "sequence"
    fill,     \* the contents the buffer started with
    nsets     \* number of set calls made in a probe run

vars == <<buf, last, written, run, fill, nsets>>

----------------------------------------------------------------------------
(* Bounds of the exploration *)

BufLen == 64
MaxSets == 1

Indices == 0..(BufLen - 1)

----------------------------------------------------------------------------
(* Header offsets and minimum lengths, of_message.h lines 19-33 *)

OF_MESSAGE_VERSION_OFFSET == 0
OF_MESSAGE_TYPE_OFFSET == 1
OF_MESSAGE_LENGTH_OFFSET == 2
OF_MESSAGE_XID_OFFSET == 4
OF_MESSAGE_HEADER_LENGTH == 8
OF_MESSAGE_STATS_TYPE_OFFSET == 8

OF_MESSAGE_FLOW_MOD_COMMAND_OFFSET_wrong(version) ==
    IF version = 2 THEN 56 ELSE 25

OF_MESSAGE_FLOW_MOD_COMMAND_OFFSET(version) ==
    IF version = 1 THEN 56 ELSE 25

OF_MESSAGE_MIN_LENGTH == 8

OF_MESSAGE_MIN_STATS_LENGTH_wrong ==
    OF_MESSAGE_STATS_TYPE_OFFSET + 4

OF_MESSAGE_MIN_STATS_LENGTH ==
    OF_MESSAGE_STATS_TYPE_OFFSET + 2

OF_MESSAGE_MIN_FLOW_MOD_LENGTH(version) ==
    IF version = 1 THEN 57 ELSE 26

OF_MESSAGE_EXPERIMENTER_ID_OFFSET == 8
OF_MESSAGE_EXPERIMENTER_SUBTYPE_OFFSET == 12
OF_MESSAGE_EXPERIMENTER_MIN_LENGTH == 16

(* The wire value of protocol version 1.0 (enumeration of_version_t). *)
OF_VERSION_1_0 == 1

----------------------------------------------------------------------------
(* Integer conversions of C *)

U8(x) == x % 256
U16(x) == x % 65536

(* A uint32_t is the pair <<high 16 bits, low 16 bits>>: TLC's integers    *)
(* are 32-bit signed, so 0xDEADBEEF does not fit in one.                    *)
U32(x) == <<x[1] % 65536, x[2] % 65536>>

----------------------------------------------------------------------------
(* Buffer primitives of loci/of_buffer.h: multi-byte values are stored in  *)
(* network (big-endian) order.  A get yields the value and the indices it  *)
(* read;  a set yields the new memory and the indices it wrote.            *)

buf_u8_get(mem, off) ==
    [val |-> mem[off], idx |-> {off}]

buf_u16_get(mem, off) ==
    [val |-> mem[off] * 256 + mem[off + 1], idx |-> {off, off + 1}]

buf_u32_get(mem, off) ==
    [val |-> <<mem[off] * 256 + mem[off + 1],
               mem[off + 2] * 256 + mem[off + 3]>>,
     idx |-> {off, off + 1, off + 2, off + 3}]

buf_u8_set(mem, off, v) ==
    [mem |-> [mem EXCEPT ![off] = U8(v)], idx |-> {off}]

buf_u16_set(mem, off, v) ==
    [mem |-> [mem EXCEPT ![off] = U16(v) \div 256,
                         ![off + 1] = U16(v) % 256],
     idx |-> {off, off + 1}]

buf_u32_set(mem, off, v) ==
    [mem |-> [mem EXCEPT ![off] = U32(v)[1] \div 256,
                         ![off + 1] = U32(v)[1] % 256,
                         ![off + 2] = U32(v)[2] \div 256,
                         ![off + 3] = U32(v)[2] % 256],
     idx |-> {off, off + 1, off + 2, off + 3}]

----------------------------------------------------------------------------
(* The accessors, of_message.h lines 71-226 *)

of_message_version_get(msg) ==
    [val |-> msg[OF_MESSAGE_VERSION_OFFSET],
     idx |-> {OF_MESSAGE_VERSION_OFFSET}]

of_message_version_set(msg, version) ==
    buf_u8_set(msg, 0, U8(version))

of_message_type_get_wrong(msg) ==
    [val |-> msg[OF_MESSAGE_VERSION_OFFSET],
     idx |-> {OF_MESSAGE_VERSION_OFFSET}]

of_message_type_get(msg) ==
    [val |-> msg[OF_MESSAGE_TYPE_OFFSET], idx |-> {OF_MESSAGE_TYPE_OFFSET}]

of_message_type_set_wrong(msg, value) ==
    buf_u8_set(msg, OF_MESSAGE_VERSION_OFFSET, value)

of_message_type_set(msg, value) ==
    buf_u8_set(msg, OF_MESSAGE_TYPE_OFFSET, value)

of_message_length_get(msg) ==
    buf_u16_get(msg, OF_MESSAGE_LENGTH_OFFSET)

of_message_length_set(msg, len) ==
    buf_u16_set(msg, OF_MESSAGE_LENGTH_OFFSET, len)

of_message_xid_get(msg) ==
    buf_u32_get(msg, OF_MESSAGE_XID_OFFSET)

of_message_xid_set_wrong(msg, xid) ==
    buf_u32_set(msg, OF_MESSAGE_XID_OFFSET + 1, xid)

of_message_xid_set(msg, xid) ==
    buf_u32_set(msg, OF_MESSAGE_XID_OFFSET, xid)

of_message_stats_type_get_wrong(msg) ==
    buf_u16_get(msg, OF_MESSAGE_STATS_TYPE_OFFSET + 2)

of_message_stats_type_get(msg) ==
    buf_u16_get(msg, OF_MESSAGE_STATS_TYPE_OFFSET)

of_message_stats_type_set(msg, type) ==
    buf_u16_set(msg, OF_MESSAGE_STATS_TYPE_OFFSET, type)

of_message_experimenter_id_get(msg) ==
    buf_u32_get(msg, OF_MESSAGE_EXPERIMENTER_ID_OFFSET)

of_message_experimenter_id_set(msg, experimenter_id) ==
    buf_u32_set(msg, OF_MESSAGE_EXPERIMENTER_ID_OFFSET, experimenter_id)

of_message_experimenter_subtype_get(msg) ==
    buf_u32_get(msg, OF_MESSAGE_EXPERIMENTER_SUBTYPE_OFFSET)

of_message_experimenter_subtype_set_wrong(msg, subtype) ==
    buf_u32_set(msg, OF_MESSAGE_EXPERIMENTER_ID_OFFSET, subtype)

of_message_experimenter_subtype_set(msg, subtype) ==
    buf_u32_set(msg, OF_MESSAGE_EXPERIMENTER_SUBTYPE_OFFSET, subtype)

of_message_flow_mod_command_get_wrong(msg, version) ==
    IF version = OF_VERSION_1_0
    THEN LET r == buf_u16_get(msg, OF_MESSAGE_FLOW_MOD_COMMAND_OFFSET(version))
         IN  [val |-> r.val \div 256, idx |-> r.idx]
    ELSE buf_u8_get(msg, OF_MESSAGE_FLOW_MOD_COMMAND_OFFSET(version))

of_message_flow_mod_command_get(msg, version) ==
    IF version = OF_VERSION_1_0
    THEN LET r == buf_u16_get(msg, OF_MESSAGE_FLOW_MOD_COMMAND_OFFSET(version))
         IN  [val |-> U8(r.val), idx |-> r.idx]
    ELSE buf_u8_get(msg, OF_MESSAGE_FLOW_MOD_COMMAND_OFFSET(version))

of_message_flow_mod_command_set_wrong(msg, version, command) ==
    IF version = OF_VERSION_1_0
    THEN buf_u8_set(msg, OF_MESSAGE_FLOW_MOD_COMMAND_OFFSET(version) + 1,
                    command)
    ELSE buf_u8_set(msg, OF_MESSAGE_FLOW_MOD_COMMAND_OFFSET(version), command)

of_message_flow_mod_command_set(msg, version, command) ==
    IF version = OF_VERSION_1_0
    THEN buf_u16_set(msg, OF_MESSAGE_FLOW_MOD_COMMAND_OFFSET(version),
                     U16(U8(command)))
    ELSE buf_u8_set(msg, OF_MESSAGE_FLOW_MOD_COMMAND_OFFSET(version), command)

----------------------------------------------------------------------------
(* Dispatch by field name, used by the properties and the history *)

Fields == {"version", "type", "length", "xid", "stats_type",
           "experimenter_id", "experimenter_subtype", "flow_mod_command"}

Get(field, version, msg) ==
    CASE field = "version" -> of_message_version_get(msg)
      [] field = "type" -> of_message_type_get(msg)
      [] field = "length" -> of_message_length_get(msg)
      [] field = "xid" -> of_message_xid_get(msg)
      [] field = "stats_type" -> of_message_stats_type_get(msg)
      [] field = "experimenter_id" -> of_message_experimenter_id_get(msg)
      [] field = "experimenter_subtype" ->
             of_message_experimenter_subtype_get(msg)
      [] field = "flow_mod_command" ->
             of_message_flow_mod_command_get(msg, version)

Set(field, version, msg, v) ==
    CASE field = "version" -> of_message_version_set(msg, v)
      [] field = "type" -> of_message_type_set(msg, v)
      [] field = "length" -> of_message_length_set(msg, v)
      [] field = "xid" -> of_message_xid_set(msg, v)
      [] field = "stats_type" -> of_message_stats_type_set(msg, v)
      [] field = "experimenter_id" -> of_message_experimenter_id_set(msg, v)
      [] field = "experimenter_subtype" ->
             of_message_experimenter_subtype_set(msg, v)
      [] field = "flow_mod_command" ->
             of_message_flow_mod_command_set(msg, version, v)

(* The minimum-length constant the header defines for an accessor's group *)
MinLength(field, version) ==
    CASE field \in {"version", "type", "length", "xid"} ->
             OF_MESSAGE_MIN_LENGTH
      [] field = "stats_type" -> OF_MESSAGE_MIN_STATS_LENGTH
      [] field \in {"experimenter_id", "experimenter_subtype"} ->
             OF_MESSAGE_EXPERIMENTER_MIN_LENGTH
      [] field = "flow_mod_command" ->
             OF_MESSAGE_MIN_FLOW_MOD_LENGTH(version)

----------------------------------------------------------------------------
(* Inputs *)

Fill(f) ==
    CASE f = "zero" -> [i \in Indices |-> 0]
      [] f = "ones" -> [i \in Indices |-> 255]
      [] f = "ramp" -> [i \in Indices |-> (i * 7 + 3) % 256]

\* 0x1234 = 4660; as <<high, low>> halves: 0x01020304 = <<258, 772>>,
\* 0xAABBCCDD = <<43707, 52445>>, 0xDEADBEEF = <<57005, 48879>>
ProbeU8 == {0, 7, 128, 255}
ProbeU16 == {0, 256, 4660, 65535}
ProbeU32 == {<<0, 0>>, <<258, 772>>, <<43707, 52445>>, <<65535, 65535>>}
ProbeVersions == {0, 1, 2, 3, 4, 255}

Values(field) ==
    IF run = "probe"
    THEN CASE field \in {"version", "type", "flow_mod_command"} -> ProbeU8
           [] field \in {"length", "stats_type"} -> ProbeU16
           [] OTHER -> ProbeU32
    ELSE CASE field = "version" -> {4}
           [] field = "type" -> {14}
           [] field = "length" -> {64, 4660}
           [] field = "xid" -> {<<57005, 48879>>}
           [] field = "stats_type" -> {4660}
           [] field = "experimenter_id" -> {<<43707, 52445>>}
           [] field = "experimenter_subtype" -> {<<258, 772>>}
           [] field = "flow_mod_command" -> {2, 7}

Versions == IF run = "probe" THEN ProbeVersions ELSE {1, 4}

(* Arguments and results are recorded zero-extended to 32 bits, as the   *)
(* pair <<high 16 bits, low 16 bits>>.                                   *)
Wide(field, v) ==
    IF field \in {"xid", "experimenter_id", "experimenter_subtype"}
    THEN v
    ELSE <<0, v>>

NoCall ==
    [op |-> "none", field |-> "none", version |-> 0, value |-> <<0, 0>>,
     ret |-> <<0, 0>>, touched |-> {}, minlen |-> 0]

Init ==
    /\ run \in {"probe", "sequence"}
    /\ fill \in (IF run = "probe" THEN {"ones", "ramp"}
                                  ELSE {"zero", "ramp"})
    /\ buf = Fill(fill)
    /\ last = NoCall
    /\ written = {}
    /\ nsets = 0

----------------------------------------------------------------------------
(* One accessor call *)

CanSet == run = "sequence" \/ nsets < MaxSets

GetCall(field, version, r) ==
    /\ last' = [op |-> "get", field |-> field, version |-> version,
                value |-> <<0, 0>>, ret |-> Wide(field, r.val),
                touched |-> r.idx,
                minlen |-> MinLength(field, version)]
    /\ UNCHANGED <<buf, written, run, fill, nsets>>

SetCall(field, version, v, r) ==
    /\ CanSet
    /\ buf' = r.mem
    /\ last' = [op |-> "set", field |-> field, version |-> version,
                value |-> Wide(field, v), ret |-> <<0, 0>>,
                touched |-> r.idx,
                minlen |-> MinLength(field, version)]
    /\ written' = {w \in written : w.touched \cap r.idx = {}}
                    \cup {[field |-> field, version |-> version,
                           value |-> Wide(field, v),
                           touched |-> r.idx]}
    /\ nsets' = IF run = "probe" THEN nsets + 1 ELSE nsets
    /\ UNCHANGED <<run, fill>>

VersionGet == GetCall("version", 0, of_message_version_get(buf))

VersionSet ==
    \E v \in Values("version") :
        SetCall("version", 0, v, of_message_version_set(buf, v))

TypeGet == GetCall("type", 0, of_message_type_get(buf))

TypeSet ==
    \E v \in Values("type") :
        SetCall("type", 0, v, of_message_type_set(buf, v))

LengthGet == GetCall("length", 0, of_message_length_get(buf))

LengthSet ==
    \E v \in Values("length") :
        SetCall("length", 0, v, of_message_length_set(buf, v))

XidGet == GetCall("xid", 0, of_message_xid_get(buf))

XidSet ==
    \E v \in Values("xid") :
        SetCall("xid", 0, v, of_message_xid_set(buf, v))

StatsTypeGet == GetCall("stats_type", 0, of_message_stats_type_get(buf))

StatsTypeSet ==
    \E v \in Values("stats_type") :
        SetCall("stats_type", 0, v, of_message_stats_type_set(buf, v))

ExperimenterIdGet ==
    GetCall("experimenter_id", 0, of_message_experimenter_id_get(buf))

ExperimenterIdSet ==
    \E v \in Values("experimenter_id") :
        SetCall("experimenter_id", 0, v,
                of_message_experimenter_id_set(buf, v))

ExperimenterSubtypeGet ==
    GetCall("experimenter_subtype", 0,
            of_message_experimenter_subtype_get(buf))

ExperimenterSubtypeSet ==
    \E v \in Values("experimenter_subtype") :
        SetCall("experimenter_subtype", 0, v,
                of_message_experimenter_subtype_set(buf, v))

FlowModCommandGet ==
    \E version \in Versions :
        GetCall("flow_mod_command", version,
                of_message_flow_mod_command_get(buf, version))

FlowModCommandSet ==
    \E version \in Versions : \E v \in Values("flow_mod_command") :
        SetCall("flow_mod_command", version, v,
                of_message_flow_mod_command_set(buf, version, v))

Next ==
    \/ VersionGet
    \/ VersionSet
    \/ TypeGet
    \/ TypeSet
    \/ LengthGet
    \/ LengthSet
    \/ XidGet
    \/ XidSet
    \/ StatsTypeGet
    \/ StatsTypeSet
    \/ ExperimenterIdGet
    \/ ExperimenterIdSet
    \/ ExperimenterSubtypeGet
    \/ ExperimenterSubtypeSet
    \/ FlowModCommandGet
    \/ FlowModCommandSet

Spec == Init /\ [][Next]_vars

TypeOK ==
    /\ buf \in [Indices -> 0..255]
    /\ last.op \in {"none", "get", "set"}
    /\ run \in {"probe", "sequence"}
    /\ nsets \in 0..MaxSets

----------------------------------------------------------------------------
(* Vocabulary of the properties *)

IsSet(c, field) == c.op = "set" /\ c.field = field
IsGet(c, field) == c.op = "get" /\ c.field = field

(* The argument of a recorded call, in the accessor's own width *)
Narrow(field, w) ==
    IF field \in {"xid", "experimenter_id", "experimenter_subtype"}
    THEN w
    ELSE w[2]

(* The byte range the layout table declares for a field *)
DeclaredRange(field, version) ==
    CASE field = "version" -> {0}
      [] field = "type" -> {1}
      [] field = "length" -> 2..3
      [] field = "xid" -> 4..7
      [] field = "stats_type" -> 8..9
      [] field = "experimenter_id" -> 8..11
      [] field = "experimenter_subtype" -> 12..15
      [] field = "flow_mod_command" -> IF version = 1 THEN 56..57 ELSE {25}

(* Bytes off..off+3 of a buffer hold the 32-bit value w, big-endian *)
HoldsBE32(mem, off, w) ==
    /\ mem[off] = w[1] \div 256
    /\ mem[off + 1] = w[1] % 256
    /\ mem[off + 2] = w[2] \div 256
    /\ mem[off + 3] = w[2] % 256

(* Bytes off..off+1 of a buffer hold the 16-bit value v, big-endian *)
HoldsBE16(mem, off, v) ==
    /\ mem[off] = v \div 256
    /\ mem[off + 1] = v % 256

----------------------------------------------------------------------------
(* C1: round trip.  For every field and every value of the field's width,  *)
(* a set followed by a get of the same field (with the same version        *)
(* argument for the flow-mod command) returns exactly the value written.   *)

RoundTripStep ==
    (/\ last.op = "set"
     /\ last'.op = "get"
     /\ last'.field = last.field
     /\ last'.version = last.version)
    => last'.ret = last.value

RoundTrip == [][RoundTripStep]_vars

RoundTripWitness ==
    /\ IsGet(last, "flow_mod_command")
    /\ last.version = 1
    /\ last.ret = <<0, 7>>
    /\ fill = "ones"
    /\ [field |-> "flow_mod_command", version |-> 1, value |-> <<0, 7>>,
        touched |-> {56, 57}] \in written

----------------------------------------------------------------------------
(* C2: byte order.  A set of a 2-byte field (length at 2, stats type at 8) *)
(* leaves buf[offset] = v div 256 and buf[offset+1] = v mod 256;  a set of *)
(* a 4-byte field (xid at 4, experimenter id at 8, experimenter subtype at *)
(* 12) leaves the four bytes of v, most significant first.  0x1234 is      *)
(* stored as 0x12, 0x34 and 0x01020304 as 0x01, 0x02, 0x03, 0x04.          *)

ByteOrder ==
    /\ IsSet(last, "length") => HoldsBE16(buf, 2, last.value[2])
    /\ IsSet(last, "stats_type") => HoldsBE16(buf, 8, last.value[2])
    /\ IsSet(last, "xid") => HoldsBE32(buf, 4, last.value)
    /\ IsSet(last, "experimenter_id") => HoldsBE32(buf, 8, last.value)
    /\ IsSet(last, "experimenter_subtype") => HoldsBE32(buf, 12, last.value)
    /\ (IsSet(last, "length") /\ last.value = <<0, 4660>>)
           => (buf[2] = 18 /\ buf[3] = 52)
    /\ (IsSet(last, "xid") /\ last.value = <<258, 772>>)
           => (buf[4] = 1 /\ buf[5] = 2 /\ buf[6] = 3 /\ buf[7] = 4)

ByteOrderWitness ==
    /\ IsSet(last, "xid")
    /\ last.value = <<258, 772>>
    /\ fill = "ones"
    /\ buf[4] = 1 /\ buf[5] = 2 /\ buf[6] = 3 /\ buf[7] = 4

----------------------------------------------------------------------------
(* C3: field independence.  A set changes no byte outside the field's      *)
(* declared range.  From a 64-byte all-zero buffer, setting version = 4,   *)
(* type = 14, length = 64, xid = 0xDEADBEEF and flow-mod command = 2 with  *)
(* version 4 leaves bytes 0, 1, 2-3, 4-7 and 25 with the encoded values    *)
(* and every other byte 0.                                                 *)

FrameStep ==
    last'.op = "set" =>
        \A i \in Indices \ DeclaredRange(last'.field, last'.version) :
            buf'[i] = buf[i]

ExampleCalls ==
    {[field |-> "version", version |-> 0, value |-> <<0, 4>>,
      touched |-> {0}],
     [field |-> "type", version |-> 0, value |-> <<0, 14>>,
      touched |-> {1}],
     [field |-> "length", version |-> 0, value |-> <<0, 64>>,
      touched |-> {2, 3}],
     [field |-> "xid", version |-> 0, value |-> <<57005, 48879>>,
      touched |-> {4, 5, 6, 7}],
     [field |-> "flow_mod_command", version |-> 4, value |-> <<0, 2>>,
      touched |-> {25}]}

ExampleBuffer ==
    [i \in Indices |->
        CASE i = 0 -> 4
          [] i = 1 -> 14
          [] i = 2 -> 0
          [] i = 3 -> 64
          [] i = 4 -> 222
          [] i = 5 -> 173
          [] i = 6 -> 190
          [] i = 7 -> 239
          [] i = 25 -> 2
          [] OTHER -> 0]

ExampleDone == fill = "zero" /\ written = ExampleCalls

FieldIndependence ==
    /\ [][FrameStep]_vars
    /\ [](ExampleDone => buf = ExampleBuffer)

FieldIndependenceWitness ==
    /\ ExampleDone
    /\ IsSet(last, "flow_mod_command")
    /\ buf[25] = 2
    /\ buf[4] = 222

----------------------------------------------------------------------------
(* C4: version dispatch.  With version 1.0 a flow-mod command set(c)       *)
(* writes [0x00, c] at offsets 56-57 and leaves byte 25 unchanged;  with   *)
(* version 1.1, 1.2 or 1.3+ it writes c at offset 25 and leaves bytes 56   *)
(* and 57 unchanged;  a following get with the same version returns c.     *)

VersionDispatchStep ==
    IsSet(last', "flow_mod_command") =>
        LET c == last'.value[2]
            v == last'.version
        IN  /\ v = 1 =>
                   /\ buf'[56] = 0
                   /\ buf'[57] = c
                   /\ buf'[25] = buf[25]
            /\ v >= 2 =>
                   /\ buf'[25] = c
                   /\ buf'[56] = buf[56]
                   /\ buf'[57] = buf[57]
            /\ v >= 1 => of_message_flow_mod_command_get(buf', v).val = c

VersionDispatchGetStep ==
    (/\ IsSet(last, "flow_mod_command")
     /\ IsGet(last', "flow_mod_command")
     /\ last'.version = last.version
     /\ last.version >= 1)
    => last'.ret = last.value

VersionDispatch == [][VersionDispatchStep /\ VersionDispatchGetStep]_vars

VersionDispatchWitness ==
    /\ IsGet(last, "flow_mod_command")
    /\ last.version = 2
    /\ last.ret = <<0, 7>>
    /\ fill = "ones"
    /\ buf[25] = 7 /\ buf[56] = 255 /\ buf[57] = 255
    /\ written = {[field |-> "flow_mod_command", version |-> 2,
                   value |-> <<0, 7>>, touched |-> {25}]}

----------------------------------------------------------------------------
(* C5: offset aliasing.  Experimenter-id set(v) followed by stats-type get *)
(* returns the high 16 bits of v;  stats-type set(t) followed by           *)
(* experimenter-id get returns t in the high 16 bits and the previous      *)
(* contents of bytes 10-11 in the low 16 bits.                             *)

AliasingStep ==
    /\ IsSet(last', "experimenter_id") =>
           of_message_stats_type_get(buf').val = last'.value[1]
    /\ (IsSet(last, "experimenter_id") /\ IsGet(last', "stats_type")) =>
           last'.ret = <<0, last.value[1]>>
    /\ IsSet(last', "stats_type") =>
           of_message_experimenter_id_get(buf').val =
               <<last'.value[2], buf[10] * 256 + buf[11]>>
    /\ (IsSet(last, "stats_type") /\ IsGet(last', "experimenter_id")) =>
           last'.ret = <<last.value[2], buf[10] * 256 + buf[11]>>

Aliasing == [][AliasingStep]_vars

AliasingWitness ==
    /\ IsGet(last, "stats_type")
    /\ last.ret = <<0, 43707>>
    /\ [field |-> "experimenter_id", version |-> 0,
        value |-> <<43707, 52445>>, touched |-> {8, 9, 10, 11}] \in written

----------------------------------------------------------------------------
(* C6: minimum-length constants.  As claimed: the header defines a         *)
(* minimum-length constant of 8 for the base header, 10 for the stats      *)
(* type, 12 for the experimenter id, 16 for the experimenter subtype, 57   *)
(* for the flow-mod command under version 1.0 and 26 under version >= 1.1. *)

ClaimedMinLength(field, version) ==
    CASE field \in {"version", "type", "length", "xid"} -> 8
      [] field = "stats_type" -> 10
      [] field = "experimenter_id" -> 12
      [] field = "experimenter_subtype" -> 16
      [] field = "flow_mod_command" -> IF version = 1 THEN 57 ELSE 26

MinLengthCovered(c) ==
    c.op # "none" /\ (c.field = "flow_mod_command" => c.version >= 1)

MinLengthTableAsClaimed ==
    MinLengthCovered(last) =>
        last.minlen = ClaimedMinLength(last.field, last.version)

(* C6, amended: the header defines no constant of 12;  its only            *)
(* experimenter constant is 16 and serves the experimenter id and the      *)
(* experimenter subtype alike.  The other constants are as claimed.        *)

MinLengthTable ==
    MinLengthCovered(last) =>
        last.minlen = IF last.field = "experimenter_id"
                      THEN 16
                      ELSE ClaimedMinLength(last.field, last.version)

MinLengthTableWitness ==
    /\ IsGet(last, "experimenter_id")
    /\ last.minlen = 16
    /\ last.touched = 8..11

----------------------------------------------------------------------------
(* C7: flow-mod command get returns a value in 0..255 for every buffer and *)
(* version: under version 1.0 the byte at offset 57, whatever the byte at  *)
(* offset 56 holds;  under any other version the byte at offset 25.        *)

FlowModGetRange ==
    IsGet(last, "flow_mod_command") =>
        /\ last.ret[1] = 0
        /\ last.ret[2] \in 0..255
        /\ last.version = 1 => last.ret[2] = buf[57]
        /\ last.version # 1 => last.ret[2] = buf[25]

FlowModGetRangeWitness ==
    /\ IsGet(last, "flow_mod_command")
    /\ last.version = 1
    /\ fill = "ramp"
    /\ written = {}
    /\ buf[56] = 139
    /\ last.ret = <<0, 146>>

----------------------------------------------------------------------------
(* C8: the declared minimum lengths cover every accessed byte: no get or   *)
(* set touches an index >= the minimum-length constant of its group.       *)

MinLengthCoversAccess ==
    last.op # "none" => \A i \in last.touched : i < last.minlen

----------------------------------------------------------------------------
(* C9: last write wins.  After any sequence of calls, get of a field       *)
(* returns the value of the most recent set of that field unless a later   *)
(* set touched an overlapping byte range.  Gets never change the buffer,   *)
(* repeating a set with the same value leaves the buffer identical, and    *)
(* sets of fields with disjoint byte ranges commute.                       *)

LastWriteStands ==
    \A w \in written :
        Wide(w.field, Get(w.field, w.version, buf).val) = w.value

GetIsPureStep == last'.op = "get" => buf' = buf

SetIdempotentStep ==
    last'.op = "set" =>
        Set(last'.field, last'.version, buf',
            Narrow(last'.field, last'.value)).mem = buf'

OtherCalls ==
    {[field |-> "version", version |-> 0, value |-> <<0, 4>>],
     [field |-> "type", version |-> 0, value |-> <<0, 14>>],
     [field |-> "length", version |-> 0, value |-> <<0, 4660>>],
     [field |-> "xid", version |-> 0, value |-> <<57005, 48879>>],
     [field |-> "stats_type", version |-> 0, value |-> <<0, 4660>>],
     [field |-> "experimenter_id", version |-> 0, value |-> <<43707, 52445>>],
     [field |-> "experimenter_subtype", version |-> 0, value |-> <<258, 772>>],
     [field |-> "flow_mod_command", version |-> 1, value |-> <<0, 7>>],
     [field |-> "flow_mod_command", version |-> 4, value |-> <<0, 2>>]}

(* Each unordered pair of calls is compared once: the call just made     *)
(* against the calls of higher rank.                                     *)
Rank(field, version) ==
    CASE field = "version" -> 1
      [] field = "type" -> 2
      [] field = "length" -> 3
      [] field = "xid" -> 4
      [] field = "stats_type" -> 5
      [] field = "experimenter_id" -> 6
      [] field = "experimenter_subtype" -> 7
      [] field = "flow_mod_command" -> IF version = 1 THEN 9 ELSE 8

SetsCommuteStep ==
    last'.op = "set" =>
        \A c \in {o \in OtherCalls :
                     Rank(o.field, o.version)
                         > Rank(last'.field, last'.version)} :
            LET first == Set(c.field, c.version, buf,
                             Narrow(c.field, c.value))
                after == Set(c.field, c.version, buf',
                             Narrow(c.field, c.value))
            IN  first.idx \cap last'.touched = {} =>
                    after.mem = Set(last'.field, last'.version, first.mem,
                                    Narrow(last'.field, last'.value)).mem

LastWriteWins ==
    /\ []LastWriteStands
    /\ [][GetIsPureStep /\ SetIdempotentStep /\ SetsCommuteStep]_vars

LastWriteWinsWitness ==
    /\ run = "sequence"
    /\ fill = "zero"
    /\ IsGet(last, "length")
    /\ last.ret = <<0, 4660>>
    /\ Cardinality(written) >= 4
    /\ [field |-> "stats_type", version |-> 0, value |-> <<0, 4660>>,
        touched |-> {8, 9}] \in written
    /\ buf[10] = 204

----------------------------------------------------------------------------
(* C10: version fallback.  The flow-mod command accessors use the 2-byte   *)
(* layout at offset 56 exactly when the version argument is 1;  for every  *)
(* other version value, 0 and values above the enumerated ones included,   *)
(* get and set use the 1-byte layout at offset 25 and the minimum-length   *)
(* macro yields 26.  Get and set choose the same layout for the same       *)
(* version argument.                                                       *)

VersionFallback ==
    /\ (last.op # "none" /\ last.field = "flow_mod_command") =>
           /\ last.version = 1 => (last.touched = {56, 57} /\ last.minlen = 57)
           /\ last.version # 1 => (last.touched = {25} /\ last.minlen = 26)
    /\ \A v \in Versions :
           of_message_flow_mod_command_get(buf, v).idx =
               of_message_flow_mod_command_set(buf, v, 0).idx

VersionFallbackWitness ==
    /\ IsSet(last, "flow_mod_command")
    /\ last.version = 255
    /\ last.value = <<0, 7>>
    /\ last.touched = {25}
    /\ buf[25] = 7

====
